---- MODULE Spec2Model ----
(***************************************************************************)
(* microfun (src/index.js): the signal/action dispatch core.               *)
(*                                                                         *)
(* mount() holds the model in a closure cell, create_signal() turns        *)
(* actions into dispatchers, map_signal() scopes a signal to one key of    *)
(* its parent's model, task() bridges callback or promise commands back    *)
(* into dispatches and create_render() coalesces render requests into one  *)
(* draw per animation frame.                                               *)
(*                                                                         *)
(* JavaScript is single threaded: every action below is one whole          *)
(* run-to-completion job (an event handler, a frame callback, a promise    *)
(* reaction).  The handlers are written as operators over a record `st'    *)
(* of the program state, so that calls made inside a handler (setter ->    *)
(* render, local_callback -> fail/succeed -> setter -> render) are part of *)
(* the same step.                                                          *)
(***************************************************************************)
EXTENDS Integers, Sequences, FiniteSets, TLC

(***************************************************************************)
(* Bounds                                                                  *)
(***************************************************************************)
\* dispatcher invocations by channels, event handlers and views in one run
MaxEvents == 2
\* number of channels handed to mount()
NumChannels == 2
\* longest chain of .map() calls
MaxDepth == 2

(***************************************************************************)
(* JavaScript values.  Every value is a record of the same shape:          *)
(*   t  the type tag, n  the number / boolean / string length / error      *)
(*   code, f  the own enumerable properties of an object.                  *)
(***************************************************************************)
NoFields == [k \in {} |-> 0]

Undefined == [t |-> "undefined", n |-> 0, f |-> NoFields]

Null == [t |-> "null", n |-> 0, f |-> NoFields]

Num(i) == [t |-> "number", n |-> i, f |-> NoFields]

Bool(b) == [t |-> "boolean", n |-> IF b THEN 1 ELSE 0, f |-> NoFields]

\* a string of length i ("" and "x" are the two the model uses)
Str(i) == [t |-> "string", n |-> i, f |-> NoFields]

Fn == [t |-> "function", n |-> 0, f |-> NoFields]

Obj(fields) == [t |-> "object", n |-> 0, f |-> fields]

\* Error objects, told apart by a code
TypeErrorCode == 1
InvalidCommandCode == 2
ActionErrorCode == 3
ObserverErrorCode == 4
CommandErrorCode == 5
ViewErrorCode == 6

ErrorObj(code) == [t |-> "error", n |-> code, f |-> NoFields]

\* ToBoolean
Truthy(v) ==
  CASE v.t = "undefined" -> FALSE
    [] v.t = "null" -> FALSE
    [] v.t = "number" -> v.n # 0
    [] v.t = "boolean" -> v.n # 0
    [] v.t = "string" -> v.n # 0
    [] OTHER -> TRUE

\* the outcome of evaluating an expression: a value, or a thrown value
Ok(v) == [ok |-> TRUE, v |-> v]

Thrown(e) == [ok |-> FALSE, v |-> e]

\* the property read  v[k]
GetProp(v, k) ==
  CASE v.t \in {"undefined", "null"} -> Thrown(ErrorObj(TypeErrorCode))
    [] v.t \in {"object"} /\ k \in DOMAIN v.f -> Ok(v.f[k])
    [] OTHER -> Ok(Undefined)

\* Object.assign({}, model, update) where update = {key: val}
ObjectAssign(model, key, val) ==
  LET own == IF model.t = "object" THEN DOMAIN model.f ELSE {}
  IN Obj([k \in own \cup {key} |-> IF k = key THEN val ELSE model.f[k]])

\* arguments[i] of a call (1-based), undefined when absent
Arg(args, i) == IF i <= Len(args) THEN args[i] ELSE Undefined

(***************************************************************************)
(* Application actions (the action functions a caller passes to signals).  *)
(*   inc   function (model) { return model + 1 }                           *)
(*   put   function (model, x) { return Object.assign({}, model, {r: x}) } *)
(*   note  function (model, e) { return Object.assign({}, model, {e: e}) } *)
(*   boom  function () { throw new Error() }                               *)
(* inc is only dispatched on a scope that holds a number.                  *)
(***************************************************************************)
AppAction(name, args) ==
  CASE name = "inc" -> Ok(Num(Arg(args, 1).n + 1))
    [] name = "put" -> Ok(ObjectAssign(Arg(args, 1), "r", Arg(args, 2)))
    [] name = "note" -> Ok(ObjectAssign(Arg(args, 1), "e", Arg(args, 2)))
    [] OTHER -> Thrown(ErrorObj(ActionErrorCode))

App(name) == [kind |-> "app", name |-> name]

\* the closure map_signal hands to its parent signal
Mapped(key, inner, bound) ==
  [kind |-> "mapped", key |-> key, inner |-> inner, bound |-> bound]

\* Array.prototype.slice.call(arguments, 1)
RestArgs(args) == IF args = <<>> THEN <<>> ELSE Tail(args)

\* the update alone is returned, the fields of the parent model are lost
MappedUpdate_alone(model, key, val) == ObjectAssign(Undefined, key, val)

\* var update = {}; update[key] = val; return Object.assign({}, model, update)
MappedUpdate(model, key, val) == ObjectAssign(model, key, val)

\* action.apply(null, args): an application action, or the function
\* map_signal builds around one
RECURSIVE Apply(_, _)
Apply(action, args) ==
  IF action.kind = "app"
  THEN AppAction(action.name, args)
  ELSE LET model == Arg(args, 1)
           sub == GetProp(model, action.key)
       IN IF ~sub.ok
          THEN sub
          ELSE LET r == Apply(action.inner,
                              <<sub.v>> \o action.bound \o RestArgs(args))
               IN IF ~r.ok
                  THEN r
                  ELSE Ok(MappedUpdate(model, action.key, r.v))

(***************************************************************************)
(* Program state                                                           *)
(***************************************************************************)
VARIABLES
  pc,            \* "unmounted" before mount() is called, "mounted" after
  model,         \* mount: the closure cell `model`
  view,          \* mount: the `view` parameter
  render_model,  \* create_render
  render_view,   \* create_render
  pending,       \* create_render
  frames,        \* frame callbacks requested from the host, not yet fired
  tasks,         \* commands started and not yet completed
  micro,         \* promise reaction job waiting to run (the .catch stage)
  events,        \* number of external events so far
  lastReq,       \* arguments of the latest render() call
  schedModel,    \* the model cell when the scheduler last left Idle
  coalesced,     \* a render() call was made while Pending
  op,            \* the handler that ran last
  log            \* what the handler that ran last did, in order

vars == <<pc, model, view, render_model, render_view, pending, frames, tasks,
          micro, events, lastReq, schedModel, coalesced, op, log>>

NoView == "none"

RootSignal == "signal"

\* a task(signal, command, succeed_action, fail_action, callback) call:
\* sig is the path of the signal, obs whether a callback was passed
TaskDef(sig, succ, fail, obs) ==
  [sig |-> sig, succ |-> succ, fail |-> fail, obs |-> obs]

NoTask == TaskDef(<<>>, "none", "none", FALSE)

\* an entry of the log
Event(e, m, x, v, i) == [e |-> e, m |-> m, x |-> x, v |-> v, i |-> i]

NoExc == [thrown |-> FALSE, v |-> Undefined]

\* the state a handler works on
Cur ==
  [model |-> model, view |-> view, render_model |-> render_model,
   render_view |-> render_view, pending |-> pending, frames |-> frames,
   tasks |-> tasks, micro |-> micro, events |-> events,
   lastReq |-> lastReq, schedModel |-> schedModel, coalesced |-> coalesced,
   log |-> <<>>, exc |-> NoExc, stale |-> FALSE]

Emit(st, ev) == [st EXCEPT !.log = Append(@, ev)]

\* throw e
Throw(st, e) ==
  [Emit(st, Event("throw", e, Undefined, NoView, 0))
     EXCEPT !.exc = [thrown |-> TRUE, v |-> e]]

(***************************************************************************)
(* create_render                                                           *)
(***************************************************************************)
\* the host drops the request: the callback is never queued
requestAnimationFrame_lost(st) ==
  Emit(st, Event("raf", Undefined, Undefined, NoView, 0))

\* requestAnimationFrame(_render)
requestAnimationFrame(st) ==
  [Emit(st, Event("raf", Undefined, Undefined, NoView, 0))
     EXCEPT !.frames = @ + 1]

\* a frame is requested on every call, pending or not
render_unconditional(st, m, v) ==
  LET called == [Emit(st, Event("render", m, Undefined, v, 0))
                   EXCEPT !.lastReq = [m |-> m, v |-> v],
                          !.coalesced = st.pending,
                          !.schedModel = IF st.pending THEN @ ELSE st.model]
      s1 == [called EXCEPT !.render_model = m, !.render_view = v]
  IN requestAnimationFrame([s1 EXCEPT !.pending = TRUE])

\* the pair is recorded only by the call that schedules the flush
render_snapshot(st, m, v) ==
  LET called == [Emit(st, Event("render", m, Undefined, v, 0))
                   EXCEPT !.lastReq = [m |-> m, v |-> v],
                          !.coalesced = st.pending,
                          !.schedModel = IF st.pending THEN @ ELSE st.model]
  IN IF called.pending
     THEN called
     ELSE requestAnimationFrame([called EXCEPT !.render_model = m,
                                               !.render_view = v,
                                               !.pending = TRUE])

\* function render (model, view)
render(st, m, v) ==
  LET called == [Emit(st, Event("render", m, Undefined, v, 0))
                   EXCEPT !.lastReq = [m |-> m, v |-> v],
                          !.coalesced = st.pending,
                          !.schedModel = IF st.pending THEN @ ELSE st.model]
      s1 == [called EXCEPT !.render_model = m, !.render_view = v]
  IN IF s1.pending
     THEN s1
     ELSE requestAnimationFrame([s1 EXCEPT !.pending = TRUE])

(***************************************************************************)
(* mount: get_model, set_model                                             *)
(***************************************************************************)
get_model(st) == st.model

\* the cell is replaced without telling the scheduler
set_model_silent(st, x) ==
  [Emit(st, Event("setModel", x, Undefined, NoView, 0)) EXCEPT !.model = x]

set_model(st, x) ==
  LET s1 == [Emit(st, Event("setModel", x, Undefined, NoView, 0))
               EXCEPT !.model = x]
  IN render(s1, s1.model, s1.view)

(***************************************************************************)
(* create_signal, map_signal                                               *)
(***************************************************************************)
\* the call-time arguments put before the bound ones
DispatcherArgs_swapped(m, bound, call) == <<m>> \o call \o bound

\* [getter()].concat(signal_args.args, array(arguments))
DispatcherArgs(m, bound, call) == <<m>> \o bound \o call

\* a failed action leaves a render request behind
signal_render_on_error(st, action, bound, call) ==
  LET r == Apply(action, DispatcherArgs(get_model(st), bound, call))
  IN IF ~r.ok
     THEN Throw(render(st, st.model, st.view), r.v)
     ELSE set_model(st, r.v)

\* the dispatcher the root signal returns for (action, ...bound), invoked
\* with (...call)
signal(st, action, bound, call) ==
  LET r == Apply(action, DispatcherArgs(get_model(st), bound, call))
  IN IF ~r.ok THEN Throw(st, r.v) ELSE set_model(st, r.v)

\* the chain is composed inside out: the first key is applied innermost
RECURSIVE map_signal_reversed(_, _, _)
map_signal_reversed(path, action, bound) ==
  IF path = <<>>
  THEN [action |-> action, bound |-> bound]
  ELSE map_signal_reversed(Tail(path), Mapped(Head(path), action, bound),
                           <<>>)

\* map_signal: the (action, bound arguments) that the signal at `path'
\* (the keys from the root down) hands to the root signal
RECURSIVE map_signal(_, _, _)
map_signal(path, action, bound) ==
  IF path = <<>>
  THEN [action |-> action, bound |-> bound]
  ELSE map_signal(SubSeq(path, 1, Len(path) - 1),
                  Mapped(path[Len(path)], action, bound), <<>>)

\* every level of a chain of maps calls the setter once more
Dispatch_setter_per_level(st, path, name, bound, call) ==
  LET top == map_signal(path, App(name), bound)
      s1 == signal(st, top.action, top.bound, call)
  IN IF s1.exc.thrown \/ path = <<>> THEN s1 ELSE set_model(s1, s1.model)

\* invoking the dispatcher  sig(action, ...bound)(...call)  where sig is the
\* root signal mapped along path
Dispatch(st, path, name, bound, call) ==
  LET top == map_signal(path, App(name), bound)
  IN signal(st, top.action, top.bound, call)

\* the scheduler becomes Idle only after the tree was drawn
_render_idle_last(st, vb) ==
  LET m == st.render_model
      v == st.render_view
      s2 == Emit(st, Event("view", m, Undefined, v, 0))
      s3 == CASE vb.kind = "throws" -> Throw(s2, ErrorObj(ViewErrorCode))
              [] vb.kind = "dispatches" ->
                   Dispatch(s2, vb.d.path, vb.d.name, vb.d.bound, vb.d.call)
              [] OTHER -> s2
  IN IF s3.exc.thrown
     THEN s3
     ELSE [Emit(s3, Event("draw", m, Undefined, v, 0))
             EXCEPT !.pending = FALSE]

\* function _render ()
_render(st, vb) ==
  LET s1 == [st EXCEPT !.pending = FALSE]
      m == s1.render_model
      v == s1.render_view
      s2 == Emit(s1, Event("view", m, Undefined, v, 0))
      \* render_view(render_model, signal): the view may throw, or invoke a
      \* dispatcher while it builds the tree
      s3 == CASE vb.kind = "throws" -> Throw(s2, ErrorObj(ViewErrorCode))
              [] vb.kind = "dispatches" ->
                   Dispatch(s2, vb.d.path, vb.d.name, vb.d.bound, vb.d.call)
              [] OTHER -> s2
  IN IF s3.exc.thrown
     THEN s3
     ELSE Emit(s3, Event("draw", m, Undefined, v, 0))

(***************************************************************************)
(* task                                                                    *)
(***************************************************************************)
\* if (callback) { callback(err, result) }; othrows: the callback throws
observer(st, t, err, result, othrows) ==
  IF ~t.obs
  THEN st
  ELSE LET s1 == Emit(st, Event("observer", err, result, NoView, 0))
       IN IF othrows THEN Throw(s1, ErrorObj(ObserverErrorCode)) ELSE s1

\* the test is  err != null  instead of the truthiness of err
local_callback_notnull(st, t, err, result, othrows) ==
  LET s1 == IF err.t \notin {"undefined", "null"}
            THEN Dispatch(st, t.sig, t.fail, <<>>, <<err>>)
            ELSE Dispatch(st, t.sig, t.succ, <<>>, <<result>>)
  IN IF s1.exc.thrown THEN s1 ELSE observer(s1, t, err, result, othrows)

\* the callback is called before the dispatch
local_callback_observer_first(st, t, err, result, othrows) ==
  LET s1 == observer(st, t, err, result, othrows)
  IN IF s1.exc.thrown
     THEN s1
     ELSE IF Truthy(err)
          THEN Dispatch(s1, t.sig, t.fail, <<>>, <<err>>)
          ELSE Dispatch(s1, t.sig, t.succ, <<>>, <<result>>)

\* a completion is dropped when the model has changed since the invocation
local_callback_unless_stale(st, t, err, result, othrows) ==
  LET s1 == IF Truthy(err)
            THEN Dispatch(st, t.sig, t.fail, <<>>, <<err>>)
            ELSE Dispatch(st, t.sig, t.succ, <<>>, <<result>>)
  IN IF st.stale
     THEN st
     ELSE IF s1.exc.thrown THEN s1 ELSE observer(s1, t, err, result, othrows)

\* succeed and fail are dispatchers of the root signal, whatever signal the
\* task was created on
local_callback_on_root(st, t, err, result, othrows) ==
  LET s1 == IF Truthy(err)
            THEN Dispatch(st, <<>>, t.fail, <<>>, <<err>>)
            ELSE Dispatch(st, <<>>, t.succ, <<>>, <<result>>)
  IN IF s1.exc.thrown THEN s1 ELSE observer(s1, t, err, result, othrows)

\* var local_callback = function (err, result)
local_callback(st, t, err, result, othrows) ==
  LET s1 == IF Truthy(err)
            THEN Dispatch(st, t.sig, t.fail, <<>>, <<err>>)
            ELSE Dispatch(st, t.sig, t.succ, <<>>, <<result>>)
  IN IF s1.exc.thrown THEN s1 ELSE observer(s1, t, err, result, othrows)

\* result.then && result.catch
IsThenable(result) ==
  LET then == GetProp(result, "then")
  IN IF ~then.ok
     THEN then
     ELSE IF ~Truthy(then.v)
          THEN Ok(FALSE)
          ELSE Ok(Truthy(GetProp(result, "catch").v))

Pending(t, mode) == [t |-> t, mode |-> mode]

\* the dispatcher task() returns, invoked; cmd is what command does when it
\* is called with local_callback
task(st, t, cmd) ==
  LET s1 == IF cmd.calls = "sync"
            THEN local_callback(st, t, cmd.err, cmd.res, cmd.othrows)
            ELSE st
      s2 == IF cmd.calls = "later"
            THEN [s1 EXCEPT !.tasks = Append(@, Pending(t, "callback"))]
            ELSE s1
      result == cmd.ret
      thenable == IsThenable(result)
  IN IF s1.exc.thrown
     THEN s1
     ELSE IF result.t = "undefined"
          THEN s2
          ELSE IF ~thenable.ok
               THEN Throw(s2, thenable.v)
               ELSE IF thenable.v
                    THEN [s2 EXCEPT !.tasks = Append(@, Pending(t, "promise"))]
                    ELSE Throw(s2, ErrorObj(InvalidCommandCode))

NoMicro == [active |-> FALSE, t |-> NoTask, e |-> Undefined]

\* the promise `result' settles: the reaction registered by
\* result.then(local_callback.bind(null, null)) runs when it is fulfilled; a
\* rejection, or an exception of the reaction, rejects the derived promise,
\* whose .catch reaction is queued
then_reaction(st, t, outcome, value, othrows) ==
  IF outcome = "reject"
  THEN [st EXCEPT !.micro = [active |-> TRUE, t |-> t, e |-> value]]
  ELSE LET s1 == local_callback(st, t, Null, value, othrows)
       IN IF s1.exc.thrown
          THEN [s1 EXCEPT !.micro = [active |-> TRUE, t |-> t, e |-> s1.exc.v],
                          !.exc = NoExc]
          ELSE s1

\* the reaction registered by .catch(local_callback.bind(null)) runs
catch_reaction(st, othrows) ==
  local_callback([st EXCEPT !.micro = NoMicro], st.micro.t, st.micro.e,
                 Undefined, othrows)

(***************************************************************************)
(* mount                                                                   *)
(***************************************************************************)
\* channels.forEach(function (x) { x(signal) }), from channel i on; what a
\* channel does with the signal during the call is behaviours[i]
RECURSIVE forEachChannel(_, _, _)
forEachChannel(st, behaviours, i) ==
  IF i > Len(behaviours) \/ st.exc.thrown
  THEN st
  ELSE LET b == behaviours[i]
           s1 == Emit(st, Event("channel", Undefined, Undefined, RootSignal, i))
           s2 == IF b.kind = "dispatch"
                 THEN Dispatch(s1, b.d.path, b.d.name, b.d.bound, b.d.call)
                 ELSE s1
       IN forEachChannel(s2, behaviours, i + 1)

\* the channels are called before the initial render is requested
mount_channels_first(st, behaviours) ==
  LET s1 == forEachChannel(st, behaviours, 1)
  IN IF s1.exc.thrown THEN s1 ELSE render(s1, s1.model, s1.view)

\* function mount (node, model, view, channels)
mount(st, behaviours) ==
  forEachChannel(render(st, st.model, st.view), behaviours, 1)

(***************************************************************************)
(* Inputs                                                                  *)
(***************************************************************************)
MapKeys == {"a", "n"}

\* the signals: the root signal (<<>>) and its .map() chains, which go down
\* through field a and end at any key
Paths ==
  {p \in UNION {[1..n -> MapKeys] : n \in 0..MaxDepth} :
     \A i \in 1..(Len(p) - 1) : p[i] = "a"}

\* the value a signal at path is scoped to
RECURSIVE Lookup(_, _)
Lookup(v, path) ==
  IF path = <<>>
  THEN Ok(v)
  ELSE LET g == GetProp(v, Head(path))
       IN IF ~g.ok THEN g ELSE Lookup(g.v, Tail(path))

\* the dispatcher  sig(action, ...bound), to be invoked with (...call)
Dispatcher(path, name) ==
  [path |-> path, name |-> name,
   bound |-> IF name = "put" THEN <<Num(1)>> ELSE <<>>,
   call |-> IF name = "put" THEN <<Num(2)>> ELSE <<>>]

DispatchSet ==
  {Dispatcher(p, n) : p \in Paths, n \in {"inc", "put"}}
    \cup {Dispatcher(p, "boom") : p \in {<<>>, <<"a">>, <<"a", "n">>}}

\* inc is dispatched on counters only
WellTyped(m, d) ==
  d.name = "inc" => LET scope == Lookup(m, d.path)
                    IN scope.ok /\ scope.v.t = "number"

InitialModels ==
  {Num(0), Obj([k \in {"a", "n"} |->
                  IF k = "a" THEN Obj([j \in {"n"} |-> Num(0)]) ELSE Num(0)])}

Views == {"view"}

\* what a channel does with the signal while mount() calls it
Thenable == Obj([k \in {"then", "catch"} |-> Fn])

ThenOnly == Obj([k \in {"then"} |-> Fn])

\* what command(local_callback) does: whether and when it calls the
\* callback, and what it returns
Command(calls, err, res, othrows, ret) ==
  [calls |-> calls, err |-> err, res |-> res, othrows |-> othrows, ret |-> ret]

NoCmd == Command("never", Undefined, Undefined, FALSE, Undefined)

\* what a channel does with the signal while mount() calls it: keep it for
\* later, or dispatch an action right away
ChannelBehaviour(kind, d) == [kind |-> kind, d |-> d]

Quiet == ChannelBehaviour("quiet", Dispatcher(<<>>, "boom"))

ChannelBehaviours ==
  {Quiet, ChannelBehaviour("dispatch", Dispatcher(<<>>, "put")),
   ChannelBehaviour("dispatch", Dispatcher(<<>>, "boom"))}

\* what the view does while a flush evaluates it
ViewBehaviour(kind, d) == [kind |-> kind, d |-> d]

ViewBehaviours ==
  {ViewBehaviour("ok", Dispatcher(<<>>, "boom")),
   ViewBehaviour("throws", Dispatcher(<<>>, "boom")),
   ViewBehaviour("dispatches", Dispatcher(<<>>, "put"))}

FalsyErrs == {Null, Undefined, Num(0), Str(0), Bool(FALSE)}

TruthyErrs == {Str(1), ErrorObj(CommandErrorCode)}

ErrValues == FalsyErrs \cup TruthyErrs

BaseTask == TaskDef(<<>>, "put", "note", FALSE)

\* the (err, result) pairs the command of task t completes with
Completions(t) ==
  {[err |-> Null, res |-> Num(5)], [err |-> Str(1), res |-> Undefined]}
    \cup IF t = BaseTask
         THEN {[err |-> e, res |-> Num(5)] : e \in ErrValues}
         ELSE {}

\* the ways the promise of task t settles
Settlements(t) ==
  {[outcome |-> "resolve", value |-> Num(7)],
   [outcome |-> "reject", value |-> Str(1)]}
    \cup IF t = BaseTask
         THEN {[outcome |-> "reject", value |-> e] : e \in ErrValues}
         ELSE {}

TaskDefs ==
  {BaseTask,
   TaskDef(<<>>, "put", "note", TRUE),
   TaskDef(<<>>, "boom", "note", TRUE),
   TaskDef(<<>>, "put", "boom", TRUE),
   TaskDef(<<"a">>, "put", "note", TRUE)}

\* whether the callback passed to task() throws when it is called
ObserverThrows(t) == IF t.obs THEN BOOLEAN ELSE {FALSE}

InvalidReturns == {Num(42), Null, ThenOnly}

\* the task dispatcher invocations
Invocations ==
  {[t |-> t, cmd |-> c] :
     t \in TaskDefs,
     c \in {Command("later", Undefined, Undefined, FALSE, Undefined),
            Command("never", Undefined, Undefined, FALSE, Thenable)}}
    \cup {[t |-> BaseTask, cmd |-> c] :
            c \in {Command("sync", Null, Num(5), FALSE, Undefined),
                   Command("sync", Str(1), Undefined, FALSE, Undefined),
                   Command("sync", Null, Num(5), FALSE, Num(42))}}
    \cup {[t |-> BaseTask,
           cmd |-> Command("never", Undefined, Undefined, FALSE, r)] :
            r \in InvalidReturns}

(***************************************************************************)
(* The handler that ran last                                               *)
(***************************************************************************)
NoOp ==
  [kind |-> "none", d |-> Dispatcher(<<>>, "boom"), t |-> NoTask,
   cmd |-> NoCmd, err |-> Undefined, res |-> Undefined, othrows |-> FALSE,
   vb |-> ViewBehaviour("ok", Dispatcher(<<>>, "boom")), chans |-> <<>>,
   exc |-> NoExc, stale |-> FALSE]

\* the handler leaves the program in state st
Commit(st, o) ==
  /\ pc' = "mounted"
  /\ model' = st.model
  /\ view' = st.view
  /\ render_model' = st.render_model
  /\ render_view' = st.render_view
  /\ pending' = st.pending
  /\ frames' = st.frames
  /\ tasks' = st.tasks
  /\ micro' = st.micro
  /\ events' = st.events
  /\ lastReq' = st.lastReq
  /\ schedModel' = st.schedModel
  /\ coalesced' = st.coalesced
  /\ log' = st.log
  /\ op' = [o EXCEPT !.exc = st.exc, !.stale = st.stale]

Remove(seq, i) == SubSeq(seq, 1, i - 1) \o SubSeq(seq, i + 1, Len(seq))

\* one more dispatcher invocation from outside
Event1(st) == [st EXCEPT !.events = @ + 1]

\* the handler that ran last wrote the model and was not the invocation of a
\* task: the tasks outstanding now were invoked before that write
Stale == op.kind # "invoke" /\ \E i \in DOMAIN log : log[i].e = "setModel"

\* the host is between jobs and may deliver an event
Ready == pc = "mounted" /\ ~micro.active

(***************************************************************************)
(* Actions                                                                 *)
(***************************************************************************)
Init ==
  /\ pc = "unmounted"
  /\ model \in InitialModels
  /\ view \in Views
  /\ render_model = Null
  /\ render_view = NoView
  /\ pending = FALSE
  /\ frames = 0
  /\ tasks = <<>>
  /\ micro = NoMicro
  /\ events = 0
  /\ lastReq = [m |-> Null, v |-> NoView]
  /\ schedModel = Null
  /\ coalesced = FALSE
  /\ op = NoOp
  /\ log = <<>>

\* the application calls mount(node, model, view, channels)
Mount ==
  /\ pc = "unmounted"
  /\ \E b \in [1..NumChannels -> ChannelBehaviours] :
       Commit(mount(Cur, b), [NoOp EXCEPT !.kind = "mount", !.chans = b])

\* a channel or a DOM event handler invokes a dispatcher
DispatchEvent ==
  /\ Ready
  /\ events < MaxEvents
  /\ \E d \in DispatchSet :
       /\ WellTyped(model, d)
       /\ Commit(Dispatch(Event1(Cur), d.path, d.name, d.bound, d.call),
                 [NoOp EXCEPT !.kind = "dispatch", !.d = d])

\* a task dispatcher is invoked
TaskInvoke ==
  /\ Ready
  /\ events < MaxEvents
  /\ \E i \in Invocations :
       Commit(task(Event1(Cur), i.t, i.cmd),
              [NoOp EXCEPT !.kind = "invoke", !.t = i.t, !.cmd = i.cmd,
                           !.err = i.cmd.err, !.res = i.cmd.res,
                           !.othrows = i.cmd.othrows])

\* a command calls its completion callback, some time after it was started
TaskCallback ==
  /\ Ready
  /\ \E i \in 1..Len(tasks) :
       /\ tasks[i].mode = "callback"
       /\ \E c \in Completions(tasks[i].t), ot \in ObserverThrows(tasks[i].t) :
            Commit(local_callback([Cur EXCEPT !.tasks = Remove(@, i),
                                              !.stale = Stale],
                                  tasks[i].t, c.err, c.res, ot),
                   [NoOp EXCEPT !.kind = "callback", !.t = tasks[i].t,
                                !.err = c.err, !.res = c.res, !.othrows = ot])

\* the promise a command returned settles and its .then reaction runs
PromiseSettle ==
  /\ Ready
  /\ \E i \in 1..Len(tasks) :
       /\ tasks[i].mode = "promise"
       /\ \E s \in Settlements(tasks[i].t), ot \in ObserverThrows(tasks[i].t) :
            /\ s.outcome = "reject" => ~ot
            /\ Commit(then_reaction([Cur EXCEPT
                                       !.tasks = Remove(@, i),
                                       !.stale = Stale],
                                    tasks[i].t, s.outcome, s.value, ot),
                      [NoOp EXCEPT !.kind = s.outcome, !.t = tasks[i].t,
                                   !.err = IF s.outcome = "reject"
                                           THEN s.value ELSE Null,
                                   !.res = IF s.outcome = "reject"
                                           THEN Undefined ELSE s.value,
                                   !.othrows = ot])

\* the queued .catch reaction runs
PromiseCatch ==
  /\ pc = "mounted"
  /\ micro.active
  /\ \E ot \in ObserverThrows(micro.t) :
       Commit(catch_reaction(Cur, ot),
              [NoOp EXCEPT !.kind = "catch", !.t = micro.t, !.err = micro.e,
                           !.othrows = ot])

\* the host fires a frame callback
Flush ==
  /\ Ready
  /\ frames > 0
  /\ \E vb \in ViewBehaviours :
       /\ vb.kind = "dispatches" => events < MaxEvents /\ WellTyped(model, vb.d)
       /\ LET s0 == [Cur EXCEPT !.frames = @ - 1]
              s1 == IF vb.kind = "dispatches" THEN Event1(s0) ELSE s0
          IN Commit(_render(s1, vb), [NoOp EXCEPT !.kind = "flush", !.vb = vb])

Next ==
  \/ Mount
  \/ DispatchEvent
  \/ TaskInvoke
  \/ TaskCallback
  \/ PromiseSettle
  \/ PromiseCatch
  \/ Flush

Spec == Init /\ [][Next]_vars

\* the job queue runs the queued .catch reaction; the step is named by its
\* effect: PromiseCatch is the only action that empties micro
CatchRuns == micro.active /\ micro' = NoMicro

\* the host fires the outstanding frame callback and the scheduler is Idle
\* when the callback returns; the step is named by its effect: Flush is the
\* only action that ends Pending
FrameFires == Ready /\ frames > 0 /\ pending' = FALSE

\* the host fires every frame callback it was asked for, and the job queue
\* runs a queued promise reaction before the host delivers anything else
LiveSpec == Spec /\ WF_pending(FrameFires) /\ WF_micro(CatchRuns)

(***************************************************************************)
(* Properties                                                              *)
(***************************************************************************)
\* the own fields of a value
Fields(v) == IF v.t = "object" THEN DOMAIN v.f ELSE {}

\* what the action of dispatcher d returns for the (sub-)model m
Expected(d, m) == AppAction(d.name, <<m>> \o d.bound \o d.call)

Prefix(path, n) == SubSeq(path, 1, n)

\* C1: invoking a dispatcher of the root signal replaces the model held at
\* the moment of the invocation, M, by action(M, ...bound, ...call)
C1_RootDispatchAppliesAction ==
  [][(op'.kind = "dispatch" /\ op'.d.path = <<>>
      /\ Expected(op'.d, model).ok)
     => model' = Expected(op'.d, model).v]_vars

\* two invocations of the inc dispatcher have been applied one after the other
C1_Witness ==
  /\ op.kind = "dispatch"
  /\ op.d = Dispatcher(<<>>, "inc")
  /\ events = 2
  /\ model = Num(2)

\* C2: a dispatcher of parentSignal.map(k) sets field k of the parent model P
\* to action(P[k], ...args) and leaves every other field of P as it was, none
\* added and none removed
C2_MappedDispatchKeepsSiblings ==
  [][(op'.kind = "dispatch" /\ Len(op'.d.path) = 1
      /\ Expected(op'.d, GetProp(model, op'.d.path[1]).v).ok)
     => LET k == op'.d.path[1]
        IN /\ Fields(model') = Fields(model) \cup {k}
           /\ model'.f[k] = Expected(op'.d, GetProp(model, k).v).v
           /\ \A j \in Fields(model) \ {k} : model'.f[j] = model.f[j]]_vars

\* field a was replaced while its sibling n is still there
C2_Witness ==
  /\ op.kind = "dispatch"
  /\ op.d = Dispatcher(<<"a">>, "put")
  /\ ~op.exc.thrown
  /\ Fields(model) = {"a", "n"}
  /\ model.f["n"] = Num(0)
  /\ GetProp(model.f["a"], "r").v = Num(1)

\* every value above the scope of the signal at path is a record
RecordsAlong(m, path) ==
  \A n \in 1..(Len(path) - 1) :
    Lookup(m, Prefix(path, n)).ok /\ Lookup(m, Prefix(path, n)).v.t = "object"

\* C3: a dispatcher of a chain s.map(k1)...map(kn), n >= 2, over records
\* sets the nested field k1...kn to action(old value) and, at every level of
\* the chain, keeps all the sibling fields
C3_ChainedDispatchKeepsSiblings ==
  [][(op'.kind = "dispatch" /\ Len(op'.d.path) >= 2
      /\ RecordsAlong(model, op'.d.path)
      /\ Expected(op'.d, Lookup(model, op'.d.path).v).ok)
     => LET path == op'.d.path
        IN /\ Lookup(model', path).v = Expected(op'.d, Lookup(model, path).v).v
           /\ \A n \in 0..(Len(path) - 1) :
                LET old == Lookup(model, Prefix(path, n)).v
                    new == Lookup(model', Prefix(path, n)).v
                    k == path[n + 1]
                IN /\ Fields(new) = Fields(old) \cup {k}
                   /\ \A j \in Fields(old) \ {k} : new.f[j] = old.f[j]]_vars

\* a.n was incremented next to a.r, and the root field n is untouched
C3_Witness ==
  /\ op.kind = "dispatch"
  /\ op.d = Dispatcher(<<"a", "n">>, "inc")
  /\ Fields(model) = {"a", "n"}
  /\ model.f["n"] = Num(0)
  /\ Fields(model.f["a"]) = {"n", "r"}
  /\ model.f["a"].f["n"] = Num(1)

\* the positions of the events named e in a log
Where(l, e) == {i \in DOMAIN l : l[i].e = e}

\* the view of this flush returned a tree
ViewReturned(o) == o.kind = "flush" /\ ~o.exc.thrown

\* C4: however many render() calls were made since the scheduler left Idle,
\* the frame callback draws once, with the pair of the latest call, and
\* leaves no frame behind for them; nothing but a frame callback draws, so
\* there are never more draws than frame callbacks fired
C4_RenderCoalescing ==
  [][/\ ViewReturned(op') =>
          /\ Cardinality(Where(log', "draw")) = 1
          /\ \A i \in Where(log', "draw") :
               log'[i].m = lastReq.m /\ log'[i].v = lastReq.v
          /\ op'.vb.kind = "ok" => frames' = 0 /\ ~pending'
     /\ ~ViewReturned(op') => Where(log', "draw") = {}]_vars

\* a flush has drawn after render() calls were coalesced
C4_Witness ==
  /\ op.kind = "flush"
  /\ op.vb.kind = "ok"
  /\ coalesced
  /\ events = 2
  /\ frames = 0
  /\ \E i \in Where(log, "draw") : log[i].m = model /\ log[i].v = view

\* C5, as claimed: a draw passes the view the model that was current when
\* the flush was scheduled, not one written by a later dispatch
C5_DrawsModelOfScheduleTime ==
  [][op'.kind = "flush" =>
       \A i \in Where(log', "draw") : log'[i].m = schedModel]_vars

\* C5, amended: a draw passes the view the model that is current when the
\* flush runs, which includes every dispatch made since it was scheduled
C5_DrawsModelOfFlushTime ==
  [][op'.kind = "flush" =>
       \A i \in Where(log', "draw") : log'[i].m = model]_vars

\* the model drawn was written after the flush had been scheduled
C5_Witness ==
  /\ op.kind = "flush"
  /\ op.vb.kind = "ok"
  /\ schedModel # model
  /\ \E i \in Where(log, "draw") : log[i].m = model

\* the completion (err, result) of the handler that ran last went through
\* local_callback on a task of the root signal, in callback mode
CallbackMode(o) ==
  /\ \/ o.kind = "callback"
     \/ o.kind = "invoke" /\ o.cmd.calls = "sync"
  /\ o.t.sig = <<>>

\* C6: in callback mode a completion with a falsy err makes the model
\* succeed(M, result), one with a truthy err makes it fail(M, err)
C6_CallbackCompletion ==
  [][CallbackMode(op') =>
       LET s == AppAction(op'.t.succ, <<model, op'.res>>)
           f == AppAction(op'.t.fail, <<model, op'.err>>)
       IN /\ (op'.err \in FalsyErrs /\ s.ok) => model' = s.v
          /\ (op'.err \in TruthyErrs /\ f.ok) => model' = f.v]_vars

\* err was 0, which is falsy, and the result was stored by the succeed action
C6_Witness ==
  /\ op.kind = "callback"
  /\ op.t = BaseTask
  /\ op.err = Num(0)
  /\ GetProp(model, "r").v = Num(5)
  /\ "e" \notin Fields(model)

\* C7, as claimed: in promise mode a resolution with v applies succeed with
\* v and never fail, a rejection with e applies fail with e and never succeed
C7_PromiseMode ==
  [][/\ (op'.kind = "resolve" /\ op'.t.sig = <<>>) =>
          LET s == AppAction(op'.t.succ, <<model, op'.res>>)
          IN s.ok => model' = s.v
     /\ (op'.kind = "catch" /\ op'.t.sig = <<>>) =>
          LET f == AppAction(op'.t.fail, <<model, op'.err>>)
          IN /\ op.kind = "reject"
             /\ f.ok => model' = f.v]_vars

\* the command returned `ret' and the callback, if it was called, completed
Returned(o) == o.kind = "invoke" /\ (o.exc.thrown => o.exc.v.n # ActionErrorCode)

\* C8, as claimed: a return value that is neither undefined nor a thenable
\* fails the invocation with the InvalidCommandResult error, undefined and
\* thenables raise no error
C8_InvalidCommandResult ==
  Returned(op) =>
    IF op.cmd.ret \in {Undefined, Thenable}
    THEN ~op.exc.thrown
    ELSE op.exc.thrown /\ op.exc.v = ErrorObj(InvalidCommandCode)

\* C9: when a callback was passed to task(), the model is replaced and the
\* render requested before the callback is called, and the callback gets the
\* (err, result) of the completion, on success and on failure
C9_DispatchBeforeObserver ==
  \A i \in Where(log, "observer") :
    /\ op.t.obs
    /\ Where(log, "observer") = {i}
    /\ \E j \in Where(log, "setModel"), k \in Where(log, "render") :
         j < k /\ k < i /\ log[j].m = model /\ log[k].m = model
    /\ log[i].m = op.err
    /\ log[i].x = op.res

\* the callback was called after a fail dispatch
C9_Witness ==
  /\ op.kind = "callback"
  /\ op.err = Str(1)
  /\ GetProp(model, "e").v = Str(1)
  /\ \E i \in Where(log, "observer") : log[i].m = Str(1)

\* the channel events of a log, in order
ChannelsCalled(l) == SelectSeq(l, LAMBDA ev : ev.e = "channel")

\* mount() requests the initial render of the model passed to it before it
\* calls any channel, and calls the channels in list order with the root
\* signal, all of them unless one throws
MountSequence ==
  op'.kind = "mount" =>
    /\ log'[1] = Event("render", model, Undefined, view, 0)
    /\ Where(log', "render") \ {1} \subseteq
         {i \in DOMAIN log' : \E c \in Where(log', "channel") : c < i}
    /\ \A i \in 1..Len(ChannelsCalled(log')) :
         ChannelsCalled(log')[i] =
           Event("channel", Undefined, Undefined, RootSignal, i)
    /\ ~op'.exc.thrown => Len(ChannelsCalled(log')) = NumChannels
    /\ Where(log', "draw") = {}

\* C10, as claimed: the first draw shows the model passed to mount(), also
\* when a channel dispatched an action during mount()
C10_FirstDrawShowsInitialModel ==
  [][/\ MountSequence
     /\ (op.kind = "mount" /\ op'.kind = "flush") =>
          \A i \in Where(log', "draw") : log'[i].m = log[1].m]_vars

\* C10, amended: the initial render is a request; the first draw happens in
\* the next frame callback and shows the model as the channels left it
C10_MountSequencing ==
  [][/\ MountSequence
     /\ (op.kind = "mount" /\ op'.kind = "flush") =>
          \A i \in Where(log', "draw") : log'[i].m = model]_vars

\* mount() has called both channels and the first of them dispatched
C10_Witness ==
  /\ op.kind = "mount"
  /\ ~op.exc.thrown
  /\ op.chans[1].kind = "dispatch"
  /\ Len(ChannelsCalled(log)) = NumChannels
  /\ GetProp(model, "r").v = Num(1)
  /\ pending

\* the succeed or fail action of the completion (err, result) throws when it
\* is applied to the scope of the model m
ActionThrows(t, m, err, result) ==
  LET scope == Lookup(m, t.sig)
  IN /\ scope.ok
     /\ IF Truthy(err)
        THEN ~AppAction(t.fail, <<scope.v, err>>).ok
        ELSE ~AppAction(t.succ, <<scope.v, result>>).ok

\* C11, as claimed: an error thrown by the succeed or fail action of a
\* completion reaches the caller in callback mode and is left uncaught in
\* promise mode; the model is not written, the callback is not called, and
\* no second dispatch or notification follows from the error
C11_ActionErrorsNotConverted ==
  [][/\ ((op'.kind \in {"callback", "catch"}
            \/ (op'.kind = "invoke" /\ op'.cmd.calls = "sync"))
         /\ ActionThrows(op'.t, model, op'.err, op'.res)) =>
          /\ op'.exc.thrown
          /\ op'.exc.v = ErrorObj(ActionErrorCode)
          /\ model' = model
          /\ Where(log', "observer") = {}
     /\ (op'.kind = "resolve"
         /\ ActionThrows(op'.t, model, Null, op'.res)) =>
          /\ model' = model
          /\ Where(log', "observer") = {}
     /\ (op'.kind = "catch" /\ op.kind = "resolve"
         /\ op.err = Null /\ ActionThrows(op.t, model, Null, op.res)) =>
          /\ Where(log', "setModel") = {}
          /\ Where(log', "observer") = {}]_vars

\* what invoking dispatcher d on the model m evaluates to: the action's
\* return value for the scope of d, or the error thrown on the way
Outcome(d, m) ==
  LET scope == Lookup(m, d.path)
  IN IF scope.ok THEN Expected(d, scope.v) ELSE scope

\* C12: when the action of a dispatch throws, at the root or under a chain
\* of maps, the error reaches the caller, set_model is not called, the model
\* and the scheduler stay as they were and no render is requested; the next
\* dispatch is applied to the unchanged model as usual
C12_ThrowingDispatchCommitsNothing ==
  [][op'.kind = "dispatch" =>
       LET r == Outcome(op'.d, model)
       IN /\ ~r.ok =>
               /\ op'.exc = [thrown |-> TRUE, v |-> r.v]
               /\ model' = model
               /\ Where(log', "setModel") = {}
               /\ Where(log', "render") = {}
               /\ Where(log', "raf") = {}
               /\ <<render_model', pending', frames'>>
                    = <<render_model, pending, frames>>
          /\ (r.ok /\ op.kind = "dispatch" /\ op.exc.thrown) =>
               /\ ~op'.exc.thrown
               /\ Lookup(model', op'.d.path) = r
               /\ Cardinality(Where(log', "setModel")) = 1
               /\ pending']_vars

\* the action of a.n's dispatcher has thrown after an earlier dispatch was
\* committed and drawn; the model still holds that dispatch's result and no
\* frame was requested
C12_Witness ==
  /\ op.kind = "dispatch"
  /\ op.d = Dispatcher(<<"a", "n">>, "boom")
  /\ op.exc = [thrown |-> TRUE, v |-> ErrorObj(ActionErrorCode)]
  /\ events = 2
  /\ model.t = "object"
  /\ Lookup(model, <<"a", "n">>) = Ok(Num(1))
  /\ ~pending
  /\ frames = 0

\* the action local_callback dispatches for the completion (err, result) and
\* the argument it passes
CompletionAction(t, err, result) ==
  IF Truthy(err)
  THEN [name |-> t.fail, arg |-> err]
  ELSE [name |-> t.succ, arg |-> result]

\* the handler o ran local_callback with the completion (o.err, o.res): a
\* callback-mode completion, a resolution, or a rejection with a truthy
\* reason that reached the .catch reaction
Completes(prev, o) ==
  \/ o.kind \in {"callback", "resolve"}
  \/ o.kind = "catch" /\ prev.kind = "reject" /\ Truthy(o.err)

\* C13: a completion is applied whether or not the model has changed since
\* the task dispatcher was invoked, and it is applied to the model Mc found
\* at completion time: the scope of the task becomes succeed(Mc, result) or
\* fail(Mc, err) in one set_model call, whichever outstanding task completes
C13_StaleCompletionApplied ==
  [][Completes(op, op') =>
       LET a == CompletionAction(op'.t, op'.err, op'.res)
           Mc == Lookup(model, op'.t.sig)
           r == AppAction(a.name, <<Mc.v, a.arg>>)
       IN (Mc.ok /\ r.ok) =>
            /\ Lookup(model', op'.t.sig) = r
            /\ Cardinality(Where(log', "setModel")) = 1
            /\ op'.t.sig = <<>> =>
                 \A k \in Fields(model) \ {"r", "e"} :
                   GetProp(model', k) = GetProp(model, k)]_vars

\* the task was invoked, then a dispatch replaced field a, then the command
\* completed: the model holds the dispatch's a.r next to the result
C13_Witness ==
  /\ op.kind = "callback"
  /\ op.t = BaseTask
  /\ op.err = Null
  /\ op.stale
  /\ events = 2
  /\ Lookup(model, <<"a", "r">>) = Ok(Num(1))
  /\ Lookup(model, <<"r">>) = Ok(Num(5))

\* the frame callbacks requested from the host and not fired yet
Outstanding == frames

\* C14: no frame is outstanding while the scheduler is Idle and exactly one
\* while it is Pending; of the render() calls of a handler only one made in
\* Idle requests a frame, exactly one and right away, and the calls made in
\* Pending request none
C14_AtMostOnePendingFlush ==
  /\ [](Outstanding = IF pending THEN 1 ELSE 0)
  /\ [][LET renders == Where(log', "render")
            \* a frame callback makes the scheduler Idle before the view runs
            wasPending == IF op'.kind = "flush" THEN FALSE ELSE pending
        IN Where(log', "raf") =
             IF wasPending \/ renders = {}
             THEN {}
             ELSE {i + 1 : i \in {j \in renders : \A k \in renders : j <= k}}
       ]_vars

\* a dispatch called render() while the frame requested at mount was still
\* outstanding: no second frame was requested
C14_Witness ==
  /\ op.kind = "dispatch"
  /\ ~op.exc.thrown
  /\ pending
  /\ coalesced
  /\ Outstanding = 1
  /\ Where(log, "render") # {}
  /\ Where(log, "raf") = {}

\* the dispatcher invocations of the handler o that ran from the state with
\* model m and returned, as far as o's inputs tell; l is the handler's log
Invoked(prev, o, m, l) ==
  CASE o.kind = "dispatch" -> IF Outcome(o.d, m).ok THEN 1 ELSE 0
    [] o.kind = "flush" ->
         IF o.vb.kind = "dispatches" /\ Outcome(o.vb.d, m).ok THEN 1 ELSE 0
    [] o.kind = "mount" ->
         Cardinality({i \in 1..Len(ChannelsCalled(l)) :
                        /\ o.chans[i].kind = "dispatch"
                        /\ \A j \in 1..i :
                             o.chans[j].kind = "dispatch" =>
                               Outcome(o.chans[j].d, m).ok})
    [] o.kind \in {"callback", "resolve", "catch"}
         \/ (o.kind = "invoke" /\ o.cmd.calls = "sync") ->
         LET a == CompletionAction(o.t, o.err, o.res)
             scope == Lookup(m, o.t.sig)
         IN IF scope.ok /\ AppAction(a.name, <<scope.v, a.arg>>).ok
            THEN 1 ELSE 0
    [] OTHER -> 0

\* C15: a handler calls set_model once for each dispatcher invocation it
\* makes whose action returns, also when the dispatcher belongs to a chain
\* of maps (once at the root, not once per level); a handler in which
\* signals, dispatchers or tasks are only created or kept (a quiet channel,
\* a task whose command has not completed, a rejection waiting for its
\* .catch) makes no call and leaves the model alone
C15_OneSetModelPerInvocation ==
  [][LET n == Invoked(op, op', model, log')
     IN /\ Cardinality(Where(log', "setModel")) = n
        /\ n = 0 => model' = model]_vars

\* one invocation of a dispatcher two maps below the root has called
\* set_model once
C15_Witness ==
  /\ op.kind = "dispatch"
  /\ op.d = Dispatcher(<<"a", "n">>, "inc")
  /\ ~op.exc.thrown
  /\ Cardinality(Where(log, "setModel")) = 1
  /\ Lookup(model, <<"a", "n">>) = Ok(Num(1))
  /\ \A i \in Where(log, "setModel") : log[i].m = model

\* the handler o called render()
Rendered(l) == Where(l, "render") # {}

\* C16: a frame callback makes the scheduler Idle before it evaluates the
\* view: a dispatch made by the view requests a new frame and records its
\* model while the tree of the old model is drawn, and the next frame
\* callback draws the new model; a frame callback whose view throws draws
\* nothing and leaves the scheduler Idle with no frame outstanding, and the
\* next render() call requests a frame again
C16_IdleBeforeView ==
  [][/\ (op'.kind = "flush" /\ op'.vb.kind = "dispatches"
         /\ ~op'.exc.thrown) =>
          /\ Cardinality(Where(log', "raf")) = 1
          /\ pending' /\ frames' = 1
          /\ render_model' = model'
          /\ model' = Outcome(op'.vb.d, model).v
          /\ \A i \in Where(log', "draw") : log'[i].m = model
          /\ \E i \in Where(log', "view"), j \in Where(log', "raf"),
                k \in Where(log', "draw") : i < j /\ j < k
     /\ (op.kind = "flush" /\ op.vb.kind = "dispatches" /\ ~op.exc.thrown
         /\ ViewReturned(op')) =>
          \E i \in Where(log', "draw") : log'[i].m = model
     /\ (op'.kind = "flush" /\ op'.vb.kind = "throws") =>
          /\ op'.exc = [thrown |-> TRUE, v |-> ErrorObj(ViewErrorCode)]
          /\ Where(log', "draw") = {}
          /\ ~pending' /\ frames' = 0
     /\ (op.kind = "flush" /\ op.vb.kind = "throws" /\ Rendered(log')) =>
          /\ Cardinality(Where(log', "raf")) = 1
          /\ pending' /\ frames' = 1]_vars

\* the view dispatched while the frame callback was running: the tree of the
\* old model was drawn and a frame for the new model is outstanding
C16_Witness ==
  /\ op.kind = "flush"
  /\ op.vb.kind = "dispatches"
  /\ ~op.exc.thrown
  /\ pending
  /\ frames = 1
  /\ render_model = model
  /\ \E i \in Where(log, "draw") : log[i].m # model

\* C17: a completion of a task created on parentSignal.map(k) sets field k
\* of the parent model P to succeed(P[k], result), or to fail(P[k], err),
\* and keeps every other field of P, in callback mode and in promise mode
C17_MappedTaskKeepsSiblings ==
  [][(Completes(op, op') /\ Len(op'.t.sig) = 1) =>
       LET k == op'.t.sig[1]
           a == CompletionAction(op'.t, op'.err, op'.res)
           r == AppAction(a.name, <<GetProp(model, k).v, a.arg>>)
       IN (GetProp(model, k).ok /\ r.ok) =>
            /\ Fields(model') = Fields(model) \cup {k}
            /\ model'.f[k] = r.v
            /\ \A j \in Fields(model) \ {k} : model'.f[j] = model.f[j]]_vars

\* a task on signal.map("a") has failed: the error is stored in a.e, next
\* to a.n, and the root field n is as before
C17_Witness ==
  /\ op.kind = "callback"
  /\ op.t = TaskDef(<<"a">>, "put", "note", TRUE)
  /\ op.err = Str(1)
  /\ Fields(model) = {"a", "n"}
  /\ model.f["n"] = Num(0)
  /\ Fields(model.f["a"]) = {"e", "n"}
  /\ model.f["a"].f["e"] = Str(1)

\* C18: once mount() has returned, between any two handlers the model the
\* scheduler has recorded is the model in mount's cell; so the model a frame
\* callback draws is the cell's model at the moment it runs, which is still
\* the cell's model afterwards unless the view itself dispatched
C18_SchedulerHoldsModel ==
  pc = "mounted" =>
    /\ render_model = model
    /\ render_view = view
    /\ \A i \in Where(log, "draw") :
         IF op.vb.kind = "dispatches"
         THEN Ok(model) = Outcome(op.vb.d, log[i].m)
         ELSE log[i].m = model

\* a task completion replaced the model while a frame was outstanding and
\* the scheduler has recorded the new model
C18_Witness ==
  /\ pc = "mounted"
  /\ op.kind = "resolve"
  /\ ~micro.active
  /\ pending
  /\ Lookup(model, <<"r">>) = Ok(Num(7))
  /\ render_model = model
  /\ schedModel # model

\* the view of the frame callback that ran last threw
ViewThrew == op.kind = "flush" /\ op.vb.kind = "throws"

\* C19: every write of the model leaves the scheduler Pending, and Pending
\* ends only in a frame callback, which draws the model then current unless
\* its view throws; when the host fires the frames it was asked for and the
\* view never throws, the scheduler is, from some point on, Idle for good
\* with no frame outstanding: so every Pending period has ended by then, each
\* with the latest model drawn, and the last draw shows the final model
C19_RenderingLiveness ==
  /\ [][(micro.active /\ ~micro'.active) => op'.kind = "catch"]_vars
  /\ [][model' # model => pending']_vars
  /\ [][(pending /\ ~pending') =>
          /\ op'.kind = "flush"
          /\ op'.vb.kind # "throws" =>
               \E i \in Where(log', "draw") : log'[i].m = model']_vars
  /\ []~ViewThrew => <>[](~pending /\ frames = 0)

\* the dispatches are used up, the last frame callback has drawn the final
\* model and the scheduler is Idle
C19_Witness ==
  /\ op.kind = "flush"
  /\ op.vb.kind = "ok"
  /\ events = MaxEvents
  /\ tasks = <<>>
  /\ ~pending
  /\ frames = 0
  /\ model # schedModel
  /\ \E i \in Where(log, "draw") : log[i].m = model

\* the invocations of the succeed and fail dispatchers a log shows: the ones
\* that reached set_model and the ones whose action threw
Dispatched(l) ==
  Cardinality(Where(l, "setModel"))
    + Cardinality({i \in Where(l, "throw") : l[i].m = ErrorObj(ActionErrorCode)})

\* the calls of the callback passed to task() a log shows
Notified(l) == Cardinality(Where(l, "observer"))

\* C20, as claimed: one completion of a command makes at most one invocation
\* of succeed or fail and at most one call of the callback, in callback mode
\* and over the .then and .catch reactions of promise mode, also when the
\* succeed action or the callback throws
C20_AtMostOneDispatchPerCompletion ==
  [][/\ (op'.kind \in {"callback", "resolve", "reject", "catch"}
           \/ (op'.kind = "invoke" /\ op'.cmd.calls = "sync")) =>
          /\ Dispatched(log') <= 1
          /\ Notified(log') <= 1
     /\ (op.kind = "resolve" /\ op'.kind = "catch") =>
          /\ Dispatched(log) + Dispatched(log') <= 1
          /\ Notified(log) + Notified(log') <= 1]_vars

====
